---- MODULE Spec2Model ----
(***************************************************************************)
(* Bookmark format converter (main.py): HTML <-> JSON conversion of        *)
(* browser bookmark files, and the file driver around the two conversions. *)
(*                                                                         *)
(* Representation of Python values:                                        *)
(*   - a decoded JSON value is a tagged record (JNull, JStr, JNum, JArr,   *)
(*     JObj); a dict is a function from its keys to values;                *)
(*   - a Python str is a record with a "kind": markup text is a sequence   *)
(*     of atoms (single spaces, newlines, tag openers, attributes, ">",    *)
(*     text runs, end tags), JSON text is the document it spells, and any  *)
(*     other text is a sequence of chunks;                                 *)
(*   - a call that can raise returns [exc, out]: exc = "" when it returned *)
(*     out, otherwise the name of the exception that escaped it.           *)
(***************************************************************************)
EXTENDS Integers, Sequences, FiniteSets, TLC

VARIABLES
    fs,                 \* the directory: path -> text of the file, or Absent
    args,               \* argparse result of the running invocation
    files_to_process,   \* main: the list the loop walks
    k,                  \* main: number of loop iterations completed
    pc,                 \* main: "idle" | "loop" | "done" | "crashed"
    calls,              \* process_file calls of this invocation:
                        \*   <<input, ret, exception caught inside the call>>
    conv,               \* what the latest process_file call did
    made_from           \* history: path -> the text its file was converted from

vars == <<fs, args, files_to_process, k, pc, calls, conv, made_from>>

-----------------------------------------------------------------------------
(* Decoded JSON values *)

JNull == [t |-> "null"]
JStr(s) == [t |-> "str", s |-> s]
JNum(n) == [t |-> "num", n |-> n]
JArr(xs) == [t |-> "arr", xs |-> xs]
JObj(f) == [t |-> "obj", f |-> f]

\* dict.get(key, default)
Get(item, key, default) ==
    IF key \in DOMAIN item.f THEN item.f[key] ELSE default

\* dict.get(key): None when the key is missing
Get1(item, key) == Get(item, key, JNull)

\* bool(v)
Truthy(v) ==
    CASE v.t = "null" -> FALSE
      [] v.t = "str" -> v.s # ""
      [] v.t = "num" -> v.n # 0
      [] v.t = "arr" -> v.xs # <<>>
      [] v.t = "obj" -> DOMAIN v.f # {}

\* str(v) as an f-string replacement field formats it
PyStr(v) ==
    CASE v.t = "null" -> "None"
      [] v.t = "str" -> v.s
      [] v.t = "num" -> ToString(v.n)
      [] v.t = "arr" -> "[..]"
      [] v.t = "obj" -> "{..}"

\* iter(v): the items a for loop walks, or TypeError
\* (a dict yields its keys, a str its characters; which keys or characters
\*  is never examined, only that each of them is a str)
Iter(v) ==
    CASE v.t = "arr" -> [exc |-> "", xs |-> v.xs]
      [] v.t = "obj" ->
            [exc |-> "", xs |-> [i \in 1..Cardinality(DOMAIN v.f) |-> JStr("k")]]
      [] v.t = "str" -> [exc |-> "", xs |-> [i \in 1..Len(v.s) |-> JStr("c")]]
      [] OTHER -> [exc |-> "TypeError", xs |-> <<>>]

-----------------------------------------------------------------------------
(* Markup text as atoms *)

Atom(a, n, v) == [a |-> a, k |-> n, v |-> v]
Sp == Atom("sp", "", " ")            \* a run of spaces: here one
Nl == Atom("nl", "", "")             \* "\n"
Gt == Atom("gt", "", "")             \* ">"
Open(tag) == Atom("open", tag, "")   \* "<TAG"
Close(tag) == Atom("close", tag, "") \* "</TAG>"
Attr(n, v) == Atom("attr", n, v)     \* NAME="v"
Text(s) == Atom("text", "", s)       \* character data
Decl(n) == Atom("decl", n, "")       \* <!DOCTYPE ..>, <!-- .. -->

\* "    " * indent_level, as a string
RECURSIVE Repeat(_)
Repeat(indent_level) ==
    IF indent_level = 0 THEN "" ELSE "    " \o Repeat(indent_level - 1)

\* the same as text: one run of spaces, or nothing at level 0
Indent(indent_level) ==
    IF indent_level = 0 THEN <<>> ELSE <<Atom("sp", "", Repeat(indent_level))>>

\* sep.join(pieces)
RECURSIVE Join(_, _)
Join(sep, pieces) ==
    IF pieces = <<>> THEN <<>>
    ELSE IF Len(pieces) = 1 THEN pieces[1]
    ELSE pieces[1] \o sep \o Join(sep, Tail(pieces))

Ok(out) == [exc |-> "", out |-> out]
Raise(e) == [exc |-> e, out |-> <<>>]

-----------------------------------------------------------------------------
(* JSON -> HTML *)

build_link_html(item, indent_level) ==
    Ok(Indent(indent_level)
       \o <<Open("DT"), Gt, Open("A"), Sp,
            Attr("HREF", PyStr(Get(item, "href", JStr("#")))), Sp,
            Attr("ADD_DATE", PyStr(Get(item, "add_date", JStr("")))), Sp,
            Attr("ICON", PyStr(Get(item, "icon", JStr("")))), Gt,
            Text(PyStr(Get(item, "name", JStr("NoNameLink")))), Close("A")>>)

RECURSIVE build_bookmark_html(_, _)
RECURSIVE BuildEach(_, _)

\* the loops "for x in xs: parts.append(build_bookmark_html(x, level))":
\* the pieces appended, or the first exception raised
BuildEach(xs, indent_level) ==
    IF xs = <<>> THEN Ok(<<>>)
    ELSE LET first == build_bookmark_html(Head(xs), indent_level)
         IN IF first.exc # "" THEN first
            ELSE LET rest == BuildEach(Tail(xs), indent_level)
                 IN IF rest.exc # "" THEN rest
                    ELSE Ok(<<first.out>> \o rest.out)

FolderHead(item, indent_level) ==
    <<Indent(indent_level)
      \o <<Open("DT"), Gt, Open("H3"), Sp,
           Attr("ADD_DATE", PyStr(Get(item, "add_date", JStr("")))), Sp,
           Attr("LAST_MODIFIED", PyStr(Get(item, "last_modified", JStr(""))))>>>>
    \o (IF "personal_toolbar_folder" \in DOMAIN item.f
        THEN <<(<<Sp, Attr("PERSONAL_TOOLBAR_FOLDER",
                          PyStr(item.f["personal_toolbar_folder"]))>>)>>
        ELSE <<>>)
    \o <<(<<Gt, Text(PyStr(Get(item, "name", JStr("NoNameFolder")))), Close("H3")>>)>>

build_folder_html(item, indent_level) ==
    LET html == FolderHead(item, indent_level)
        children == Get1(item, "children")
    IN IF ~Truthy(children) THEN Ok(Join(<<Nl>>, html))
       ELSE LET it == Iter(children)
            IN IF it.exc # "" THEN Raise(it.exc)
               ELSE LET kids == BuildEach(it.xs, indent_level + 1)
                    IN IF kids.exc # "" THEN kids
                       ELSE Ok(Join(<<Nl>>,
                                html
                                \o <<(<<Nl>> \o Indent(indent_level)
                                      \o <<Open("DL"), Gt, Open("p"), Gt>>)>>
                                \o kids.out
                                \o <<Indent(indent_level)
                                     \o <<Close("DL"), Open("p"), Gt>>>>))

build_bookmark_html(item, indent_level) ==
    IF item.t # "obj" THEN Raise("AttributeError")
    ELSE IF Get1(item, "type") = JStr("folder")
         THEN build_folder_html(item, indent_level)
         ELSE build_link_html(item, indent_level)

-----------------------------------------------------------------------------
(* Python str values: markup, JSON text, other text *)

Markup(atoms) == [kind |-> "markup", atoms |-> atoms]
JsonText(doc) == [kind |-> "json", doc |-> doc]
Plain(parts) == [kind |-> "plain", parts |-> parts]

\* the prefix of json_to_html's error string: "<error>:" in the source's language
ErrPrefix == "ERR:"

\* text == prefix in place of text.startswith(prefix)
EqualsPrefix(text, prefix) ==
    text.kind = "plain" /\ text.parts = <<prefix>>

\* str.startswith(prefix): markup begins with "<" or a space, JSON text with
\* "[", "{", a digit, a quote or a letter of null/true/false
StartsWith(text, prefix) ==
    text.kind = "plain" /\ text.parts # <<>> /\ text.parts[1] = prefix

\* json.JSONDecodeError messages of the decoder for the undecodable texts
DecoderMessage(text) ==
    IF text.kind = "plain" /\ text.parts = <<"{not valid">>
    THEN "Expecting property name enclosed in double quotes: line 1 column 2 (char 1)"
    ELSE IF text.kind = "plain" /\ text.parts = <<"[1,">>
    THEN "Expecting value: line 1 column 4 (char 3)"
    ELSE "Expecting value: line 1 column 1 (char 0)"

\* json.loads: the decoded value, or JSONDecodeError with the decoder's message
json_loads(text) ==
    IF text.kind = "json"
    THEN [exc |-> "", out |-> text.doc, msg |-> ""]
    ELSE [exc |-> "JSONDecodeError", out |-> JNull, msg |-> DecoderMessage(text)]

HtmlHeader ==
    << <<Decl("DOCTYPE NETSCAPE-Bookmark-file-1")>>,
       <<Decl("COMMENT")>>,
       <<Open("META"), Sp, Attr("HTTP-EQUIV", "Content-Type"), Sp,
         Attr("CONTENT", "text/html; charset=UTF-8"), Gt>>,
       <<Open("TITLE"), Gt, Text("Bookmarks"), Close("TITLE")>>,
       <<Open("H1"), Gt, Text("Bookmarks"), Close("H1")>>,
       <<Open("DL"), Gt, Open("p"), Gt>> >>

json_to_html(json_content) ==
    LET d == json_loads(json_content)
    IN IF d.exc # ""
       THEN Ok(Plain(<<ErrPrefix, " invalid JSON - ", d.msg>>))
       ELSE LET it == Iter(d.out)
            IN IF it.exc # "" THEN Raise(it.exc)
               ELSE LET items == BuildEach(it.xs, 1)
                    IN IF items.exc # "" THEN Raise(items.exc)
                       ELSE Ok(Markup(Join(<<Nl>>,
                                 HtmlHeader \o items.out
                                 \o << <<Close("DL"), Open("p"), Gt>> >>)))

-----------------------------------------------------------------------------
(* BeautifulSoup(html_content, "lxml"): tokens, then the element tree *)

\* tag and attribute names are lower-cased by the parser
Lower(n) ==
    CASE n = "DL" -> "dl" [] n = "DT" -> "dt" [] n = "H3" -> "h3"
      [] n = "H1" -> "h1" [] n = "A" -> "a" [] n = "META" -> "meta"
      [] n = "TITLE" -> "title" [] n = "HREF" -> "href"
      [] n = "ADD_DATE" -> "add_date" [] n = "LAST_MODIFIED" -> "last_modified"
      [] n = "ICON" -> "icon" [] n = "HTTP-EQUIV" -> "http-equiv"
      [] n = "CONTENT" -> "content"
      [] n = "PERSONAL_TOOLBAR_FOLDER" -> "personal_toolbar_folder"
      [] OTHER -> n

NoAttrs == [n \in {} |-> ""]

StartTok(tag, attrs) == [tok |-> "start", tag |-> tag, attrs |-> attrs, s |-> ""]
EndTok(tag) == [tok |-> "end", tag |-> tag, attrs |-> NoAttrs, s |-> ""]
TextTok(s) == [tok |-> "text", tag |-> "", attrs |-> NoAttrs, s |-> s]

\* 0 stands for None
Min0(S) == IF S = {} THEN 0 ELSE CHOOSE i \in S : \A j \in S : i <= j

\* the positions 1..n of a sequence, in ascending order
Positions(n) == [i \in 1..n |-> i]

\* the ">" that ends the tag opened at atom i: 0 when the text ends first
TagEnd(atoms, i) == Min0({j \in (i + 1)..Len(atoms) : atoms[j].a = "gt"})

\* the attributes of the start tag opened at atom i (spaces and newlines
\* inside a tag separate attributes; the first occurrence of a name wins)
TagAttrs(atoms, i) ==
    LET at == {j \in (i + 1)..(TagEnd(atoms, i) - 1) : atoms[j].a = "attr"}
        names == {Lower(atoms[j].k) : j \in at}
    IN [n \in names |-> atoms[Min0({j \in at : Lower(atoms[j].k) = n})].v]

\* the parser's events for a text: start tags, end tags and character data,
\* in the order of the text (whitespace between tags, the doctype and
\* comments produce no element; the texts here hold no ">" or attribute
\* outside a tag, and no tag is left unterminated)
Lex(atoms) ==
    LET Event(i) == \/ atoms[i].a \in {"close", "text"}
                    \/ atoms[i].a = "open" /\ TagEnd(atoms, i) # 0
        order == SelectSeq(Positions(Len(atoms)), Event)
    IN [r \in DOMAIN order |->
          LET h == atoms[order[r]]
          IN CASE h.a = "open" -> StartTok(Lower(h.k), TagAttrs(atoms, order[r]))
               [] h.a = "close" -> EndTok(Lower(h.k))
               [] OTHER -> TextTok(h.v)]

\* libxml2's htmlStartClose, restricted to the tags of a bookmark file: the
\* open elements a start tag closes when they are the innermost open element.
\* <dl> closes <dt> and <p>; <dt> closes <p> but NOT an open <dt>.
StartCloses(tag) ==
    CASE tag = "dl" -> {"dt", "p"}
      [] tag = "dt" -> {"p"}
      [] tag = "p" -> {"p", "h3", "h1"}
      [] tag = "h3" -> {"p"}
      [] tag = "h1" -> {"p"}
      [] tag = "a" -> {"a"}
      [] OTHER -> {}

VoidTags == {"meta"}

Node(tag, parent, attrs) == [tag |-> tag, parent |-> parent, attrs |-> attrs, text |-> ""]

\* the tree under construction: nodes in document order, each with the index
\* of its parent, and the stack of open elements; node 1 is the document body
EmptyTree == [nodes |-> <<Node("body", 0, NoAttrs)>>, stack |-> <<1>>]

Top(st) == st.stack[Len(st.stack)]
Pop(st) == [st EXCEPT !.stack = SubSeq(st.stack, 1, Len(st.stack) - 1)]

\* htmlAutoClose: pop while the new tag closes the innermost open element
RECURSIVE AutoClose(_, _)
AutoClose(st, tag) ==
    IF st.nodes[Top(st)].tag \in StartCloses(tag)
    THEN AutoClose(Pop(st), tag)
    ELSE st

StartElement(st, tag, attrs) ==
    LET c == AutoClose(st, tag)
        n == Len(c.nodes) + 1
    IN [nodes |-> Append(c.nodes, Node(tag, Top(c), attrs)),
        stack |-> IF tag \in VoidTags THEN c.stack ELSE Append(c.stack, n)]

\* htmlAutoCloseOnClose: pop up to and including the innermost open element
\* of that name
RECURSIVE PopTo(_, _)
PopTo(st, tag) ==
    IF st.nodes[Top(st)].tag = tag THEN Pop(st) ELSE PopTo(Pop(st), tag)

\* an end tag with no open element of that name is dropped
EndElement(st, tag) ==
    IF \E i \in 1..Len(st.stack) : st.nodes[st.stack[i]].tag = tag
    THEN PopTo(st, tag)
    ELSE st

Characters(st, s) ==
    [st EXCEPT !.nodes[Top(st)].text = @ \o s]

\* one event of the parser
Event(st, h) ==
    CASE h.tok = "start" -> StartElement(st, h.tag, h.attrs)
      [] h.tok = "end" -> EndElement(st, h.tag)
      [] OTHER -> Characters(st, h.s)

\* the tree after the events i.. of toks (the body is never popped: the test
\* of the stack only makes the tree so far a value before the next event)
RECURSIVE Build(_, _, _)
Build(toks, i, st) ==
    IF st.stack = <<>> \/ i > Len(toks) THEN st
    ELSE Build(toks, i + 1, Event(st, toks[i]))

\* the text a str spells when it is read as markup: JSON text and other text
\* hold no tag
AtomsOf(text) ==
    IF text.kind = "markup" THEN text.atoms ELSE <<Text("cdata")>>

BeautifulSoup(html_content) == Build(Lex(AtomsOf(html_content)), 1, EmptyTree).nodes

\* soup.find(tag): the first element of that name in document order
Find(soup, tag) == Min0({i \in 1..Len(soup) : soup[i].tag = tag})

\* el.find(tag, recursive=False): the first child of that name
FindChild(soup, el, tag) ==
    Min0({i \in 1..Len(soup) : soup[i].parent = el /\ soup[i].tag = tag})

\* el.find_next_sibling(tag): the first later child of el's parent of that name
find_next_sibling(soup, el, tag) ==
    Min0({i \in (el + 1)..Len(soup) :
            soup[i].parent = soup[el].parent /\ soup[i].tag = tag})

\* el.find_all(tag, recursive=False), in document order
FindAllChildren(soup, el, tag) ==
    LET Child(i) == soup[i].parent = el /\ soup[i].tag = tag
    IN SelectSeq(Positions(Len(soup)), Child)

\* tag.get(name): the attribute's value, or None
AttrGet(soup, el, name) ==
    IF name \in DOMAIN soup[el].attrs THEN JStr(soup[el].attrs[name]) ELSE JNull

\* get_text(strip=True)
Strip(s) ==
    CASE s = " b" -> "b"
      [] s = " " -> ""
      [] OTHER -> s

-----------------------------------------------------------------------------
(* HTML -> JSON *)

parse_bookmark_link(soup, dt_element) ==
    LET a_tag == FindChild(soup, dt_element, "a")
    IN JObj([type |-> JStr("bookmark"),
             name |-> JStr(Strip(soup[a_tag].text)),
             href |-> AttrGet(soup, a_tag, "href"),
             add_date |-> AttrGet(soup, a_tag, "add_date"),
             icon |-> AttrGet(soup, a_tag, "icon")])

RECURSIVE parse_bookmark_list(_, _)

parse_bookmark_folder(soup, dt_element) ==
    LET h3_tag == FindChild(soup, dt_element, "h3")
        folder == [type |-> JStr("folder"),
                   name |-> JStr(Strip(soup[h3_tag].text)),
                   add_date |-> AttrGet(soup, h3_tag, "add_date"),
                   last_modified |-> AttrGet(soup, h3_tag, "last_modified")]
        toolbar == IF "personal_toolbar_folder" \in DOMAIN soup[h3_tag].attrs
                   THEN [personal_toolbar_folder |->
                            JStr(soup[h3_tag].attrs["personal_toolbar_folder"])]
                   ELSE NoAttrs
        nested_dl == find_next_sibling(soup, dt_element, "dl")
        children == IF nested_dl # 0
                    THEN parse_bookmark_list(soup, nested_dl)
                    ELSE <<>>
    IN JObj(folder @@ toolbar @@ [children |-> JArr(children)])

\* the items appended for the <dt> children dts (a suffix of the list walked)
RECURSIVE ParseEach(_, _)
ParseEach(soup, dts) ==
    IF dts = <<>> THEN <<>>
    ELSE LET dt_child == Head(dts)
         IN (IF FindChild(soup, dt_child, "h3") # 0
             THEN <<parse_bookmark_folder(soup, dt_child)>>
             ELSE IF FindChild(soup, dt_child, "a") # 0
             THEN <<parse_bookmark_link(soup, dt_child)>>
             ELSE <<>>)
            \o ParseEach(soup, Tail(dts))

parse_bookmark_list(soup, dl_element) ==
    IF dl_element = 0 THEN <<>>
    ELSE ParseEach(soup, FindAllChildren(soup, dl_element, "dt"))

\* the message of the error document, as json.dumps spells it with
\* ensure_ascii left on: 11 escaped characters and "(DL" ")"
NoRootListMessage ==
    "\\u627e\\u4e0d\\u5230\\u4e3b\\u4e66\\u7b7e\\u5217\\u8868(DL\\u6807\\u7b7e)\\u3002"

ErrorDocument == JObj([error |-> JStr(NoRootListMessage)])

\* a root lookup without the fallback of lines 89-90
RootDlAfterHeading(soup) ==
    LET h1 == Find(soup, "h1")
    IN IF h1 # 0 THEN find_next_sibling(soup, h1, "dl") ELSE 0

\* the list html_to_json takes as the root: 0 when there is none
RootDl(soup) ==
    LET h1 == Find(soup, "h1")
        after_h1 == IF h1 # 0 THEN find_next_sibling(soup, h1, "dl") ELSE 0
    IN IF after_h1 # 0 THEN after_h1 ELSE Find(soup, "dl")

html_to_json(html_content) ==
    LET soup == BeautifulSoup(html_content)
        root_dl == RootDl(soup)
    IN IF root_dl = 0
       THEN JsonText(ErrorDocument)
       ELSE JsonText(JArr(parse_bookmark_list(soup, root_dl)))

-----------------------------------------------------------------------------
(* len() and "in" on the JSON text json.dumps(.., indent=4) produces *)

RECURSIVE SumOver(_, _)
Sum(f) == SumOver(f, DOMAIN f)
SumOver(f, S) ==
    IF S = {} THEN 0
    ELSE LET x == CHOOSE y \in S : TRUE IN f[x] + SumOver(f, S \ {x})

JsonIndent == 4

\* len(json.dumps(v, indent=4)) for a value printed at nesting depth d
RECURSIVE JsonLen(_, _)
JsonLen(v, d) ==
    CASE v.t = "null" -> 4
      [] v.t = "str" -> Len(v.s) + 2
      [] v.t = "num" -> Len(ToString(v.n))
      [] v.t = "arr" ->
            IF v.xs = <<>> THEN 2
            ELSE 1 + Sum([i \in DOMAIN v.xs |->
                            1 + JsonIndent * (d + 1) + JsonLen(v.xs[i], d + 1)])
                 + (Len(v.xs) - 1) + 1 + JsonIndent * d + 1
      [] v.t = "obj" ->
            IF DOMAIN v.f = {} THEN 2
            ELSE 1 + Sum([key \in DOMAIN v.f |->
                            1 + JsonIndent * (d + 1) + Len(key) + 2 + 2
                            + JsonLen(v.f[key], d + 1)])
                 + (Cardinality(DOMAIN v.f) - 1) + 1 + JsonIndent * d + 1

\* the strings of the model that hold "error" in some letter case
ErrorWords == {"error", "Error log"}

\* "error" in json_text.lower(): some key or string of the document holds it
\* (the punctuation between keys and strings holds no letter)
RECURSIVE HasError(_)
HasError(v) ==
    CASE v.t = "str" -> v.s \in ErrorWords
      [] v.t = "arr" -> \E i \in DOMAIN v.xs : HasError(v.xs[i])
      [] v.t = "obj" -> \E key \in DOMAIN v.f : key \in ErrorWords \/ HasError(v.f[key])
      [] OTHER -> FALSE

ErrorLimit == 100

\* line 185 without its length test
LooksLikeErrorAnyLength(processed_content) ==
    HasError(processed_content.doc)

\* line 185: "error" in processed_content.lower() and len(processed_content) < 100
LooksLikeError(processed_content) ==
    /\ HasError(processed_content.doc)
    /\ JsonLen(processed_content.doc, 0) < ErrorLimit

-----------------------------------------------------------------------------
(* Files *)

MaxFiles == 2       \* files "<b>bookmarks.json" / "<b>bookmarks.html", b in 1..MaxFiles

Absent == [kind |-> "absent"]       \* no such file
Locked == [kind |-> "locked"]       \* open() raises (permissions, not UTF-8)

Exts == {"json", "html"}
Bases == 1..MaxFiles
MissingPath == <<0, "missing">>     \* a path that names no file
Paths == (Bases \X Exts) \cup {MissingPath}
None == <<0, "">>                   \* an option that was not given

Modes == {"html2json", "json2html"}

\* os.path.splitext, then the extension of the mode (line 237-238)
DefaultOutput(input_file, mode) ==
    <<input_file[1], IF mode = "html2json" THEN "json" ELSE "html">>

\* glob.glob(pattern): the files of the mode's extension
Pattern(mode) == IF mode = "html2json" THEN "html" ELSE "json"
Matches(dir, mode) ==
    {p \in Bases \X {Pattern(mode)} : dir[p].kind # "absent"}

NoConv ==
    [input |-> None, output |-> None, mode |-> "", content |-> Absent,
     exc |-> "", result |-> Absent, wrote |-> FALSE, ret |-> FALSE]

\* an except clause that names the file errors only
ExceptOSError(exc) == IF exc = "OSError" THEN "" ELSE exc

\* "except Exception" at line 201: what escapes the try of an exception raised
\* inside it ("": nothing, every exception of the calls inside is an Exception)
ExceptException(exc) == ""

\* process_file: what it returns, what it leaves in the directory, the
\* exception that escapes it, and a record of the call: the text read, the exception the conversion or
\* the file access raised, the converted text
process_file(dir, input_path, output_path, mode) ==
    LET content == dir[input_path]
        call == [NoConv EXCEPT !.input = input_path, !.output = output_path,
                               !.mode = mode, !.content = content]
        failed(c) == [ret |-> FALSE, fs |-> dir, conv |-> c,
                      raised |-> ExceptException(c.exc)]
    IN IF content.kind \in {"absent", "locked"}
       THEN failed([call EXCEPT !.exc = "OSError"])
       ELSE LET r == IF mode = "html2json"
                     THEN Ok(html_to_json(content))
                     ELSE json_to_html(content)
            IN IF r.exc # ""
               THEN failed([call EXCEPT !.exc = r.exc])
               ELSE LET done == [call EXCEPT !.result = r.out]
                    IN IF mode = "html2json" /\ LooksLikeError(r.out)
                       THEN failed(done)
                       ELSE IF mode # "html2json" /\ StartsWith(r.out, ErrPrefix)
                       THEN failed(done)
                       ELSE IF dir[output_path].kind = "locked"
                       THEN failed([done EXCEPT !.exc = "OSError"])
                       ELSE [ret |-> TRUE,
                             fs |-> [dir EXCEPT ![output_path] = r.out],
                             conv |-> [done EXCEPT !.wrote = TRUE, !.ret = TRUE],
                             raised |-> ""]

-----------------------------------------------------------------------------
(* main *)

\* the orders glob may list a set of files in
Orders(S) ==
    {f \in [1..Cardinality(S) -> S] : \A i, j \in DOMAIN f : i # j => f[i] # f[j]}

\* the paths -i is given: a bookmarks file of the directory, or no file
Given(dir) == {p \in Bases \X Exts : dir[p].kind # "absent"} \cup {MissingPath}

\* lines 207-229 with -i: a missing input ends the run before the loop
StartSingle(mode, input, output) ==
    /\ pc \in {"idle", "done", "crashed"}
    /\ args' = [mode |-> mode, input |-> input, output |-> output]
    /\ IF fs[input].kind = "absent"
       THEN files_to_process' = <<>> /\ pc' = "done"
       ELSE files_to_process' = <<input>> /\ pc' = "loop"
    /\ k' = 0 /\ calls' = <<>> /\ conv' = NoConv
    /\ UNCHANGED <<fs, made_from>>

\* lines 207-229 without -i: the files the pattern matches, or none
StartBatch(mode, output) ==
    /\ pc \in {"idle", "done", "crashed"}
    /\ args' = [mode |-> mode, input |-> None, output |-> output]
    /\ \E order \in Orders(Matches(fs, mode)) :
          /\ files_to_process' = order
          /\ pc' = IF order = <<>> THEN "done" ELSE "loop"
    /\ k' = 0 /\ calls' = <<>> /\ conv' = NoConv
    /\ UNCHANGED <<fs, made_from>>

\* one iteration of the loop at line 232
ProcessNext ==
    /\ pc = "loop"
    /\ k < Len(files_to_process)
    /\ LET input_file == files_to_process[k + 1]
           output_file == IF args.output # None /\ Len(files_to_process) = 1
                          THEN args.output
                          ELSE DefaultOutput(input_file, args.mode)
       IN \E r \in {process_file(fs, input_file, output_file, args.mode)} :
          /\ fs' = r.fs
          /\ conv' = r.conv
          /\ made_from' = IF r.conv.wrote
                          THEN [made_from EXCEPT ![output_file] = r.conv.content]
                          ELSE made_from
          /\ calls' = Append(calls, <<input_file, r.ret, r.conv.exc>>)
          \* main has no try of its own: an exception leaving process_file
          \* would end the run with a traceback
          /\ pc' = IF r.raised # "" THEN "crashed" ELSE pc
    /\ k' = k + 1
    /\ UNCHANGED <<args, files_to_process>>

\* line 243: the loop is over
Finish ==
    /\ pc = "loop"
    /\ k = Len(files_to_process)
    /\ pc' = "done"
    /\ UNCHANGED <<fs, args, files_to_process, k, calls, conv, made_from>>

-----------------------------------------------------------------------------
(* The files the runs start from *)

MaxNodes == 3       \* nodes of a bookmark tree
MaxTokens == 3      \* markers of a hand-written markup file

LinkRecord(name) ==
    JObj([type |-> JStr("bookmark"), name |-> JStr(name), href |-> JStr("h"),
          add_date |-> JStr("1"), icon |-> JStr("i")])

FolderRecord(name, toolbar, children) ==
    JObj([type |-> JStr("folder"), name |-> JStr(name), add_date |-> JStr("1"),
          last_modified |-> JStr("2"), children |-> JArr(children)]
         @@ (IF toolbar THEN [personal_toolbar_folder |-> JStr("true")] ELSE NoAttrs))

\* every ordered forest of n nodes: links, and folders with or without the
\* toolbar flag; names are given by Numbered
RECURSIVE ForestsOf(_)
RECURSIVE NodesOf(_)
NodesOf(n) ==
    (IF n = 1 THEN {LinkRecord("")} ELSE {})
    \cup {FolderRecord("", tb, ch) : tb \in BOOLEAN, ch \in ForestsOf(n - 1)}
ForestsOf(n) ==
    IF n = 0 THEN {<<>>}
    ELSE UNION {{<<x>> \o rest : x \in NodesOf(j), rest \in ForestsOf(n - j)} :
                j \in 1..n}

RECURSIVE Size(_)
Size(forest) ==
    IF forest = <<>> THEN 0
    ELSE 1 + Size(Get(Head(forest), "children", JArr(<<>>)).xs) + Size(Tail(forest))

NodeName(i) == "n" \o ToString(i)

\* the forest with its nodes named n<first>, n<first+1>, .. in document order
RECURSIVE Numbered(_, _)
Numbered(forest, first) ==
    IF forest = <<>> THEN <<>>
    ELSE LET x == Head(forest)
             named == [x.f EXCEPT !["name"] = JStr(NodeName(first))]
             kids == Get(x, "children", JArr(<<>>)).xs
             node == IF "children" \in DOMAIN x.f
                     THEN [named EXCEPT !["children"] = JArr(Numbered(kids, first + 1))]
                     ELSE named
         IN <<JObj(node)>> \o Numbered(Tail(forest), first + 1 + Size(kids))

Trees == {Numbered(f, 1) : f \in UNION {ForestsOf(n) : n \in 0..MaxNodes}}

\* records with fields missing, null or of another type; values that are no
\* array of records
OddDocuments ==
    {JArr(<<JObj([type |-> JStr("bookmark")])>>),
     JArr(<<JObj([type |-> JStr("folder")])>>),
     JArr(<<JObj([name |-> JStr("error")])>>),
     JArr(<<JObj([type |-> JStr("bookmark"), name |-> JStr(" b"),
                  add_date |-> JNum(123)])>>),
     JArr(<<JObj([type |-> JStr("folder"), name |-> JStr("x"),
                  children |-> JNum(5)])>>),
     JArr(<<JObj([type |-> JStr("folder"), name |-> JStr("x"),
                  children |-> JStr("ab")])>>),
     JArr(<<JObj([type |-> JStr("folder"), name |-> JStr("x"),
                  children |-> JNull])>>),
     JArr(<<JNum(1)>>), JArr(<<LinkRecord("n1"), JNull>>),
     JNull, JNum(3), JStr(""), JStr("ab"), JObj(NoAttrs), ErrorDocument}

JsonFiles == {JsonText(d) : d \in {JArr(t) : t \in Trees} \cup OddDocuments}

GarbageFiles == {Plain(<<"{not valid">>), Plain(<<"[1,">>), Plain(<<>>)}

\* the markers of a hand-written markup file: the heading, <DL><p>, </DL><p>,
\* and an item that is a folder, a link or neither, with no attribute
Markers == {"H1", "DLO", "DLC", "F", "L", "E"}

Marker(m, i) ==
    CASE m = "H1" -> <<Open("H1"), Gt, Text("Bookmarks"), Close("H1"), Nl>>
      [] m = "DLO" -> <<Open("DL"), Gt, Open("p"), Gt, Nl>>
      [] m = "DLC" -> <<Close("DL"), Open("p"), Gt, Nl>>
      [] m = "F" -> <<Open("DT"), Gt, Open("H3"), Gt, Text(NodeName(i)), Close("H3"), Nl>>
      [] m = "L" -> <<Open("DT"), Gt, Open("A"), Gt, Text(NodeName(i)), Close("A"), Nl>>
      [] m = "E" -> <<Open("DT"), Gt, Nl>>

RECURSIVE Written(_, _)
Written(markers, i) ==
    IF i > Len(markers) THEN <<>>
    ELSE Marker(markers[i], i) \o Written(markers, i + 1)

MarkerSeqs == UNION {[1..n -> Markers] : n \in 0..MaxTokens}

\* items whose text says "error", short enough for line 185 to matter if it could
ErrorNamed ==
    {Markup(<<Open("DL"), Gt, Open("DT"), Gt, Open("A"), Gt, Text("error"),
              Close("A"), Close("DL")>>),
     Markup(<<Open("DL"), Gt, Open("DT"), Gt, Open("H3"), Sp,
              Attr("ADD_DATE", "error"), Gt, Text("Error log"), Close("H3"),
              Close("DL")>>)}

MarkupFiles == {Markup(Written(m, 1)) : m \in MarkerSeqs} \cup ErrorNamed

\* a directory holding one file, "1bookmarks.json" or "1bookmarks.html"
OneFile ==
    {[p \in Paths |-> IF p = <<1, "json">> THEN c ELSE Absent] :
        c \in JsonFiles \cup GarbageFiles \cup {Locked}}
    \cup {[p \in Paths |-> IF p = <<1, "html">> THEN c ELSE Absent] :
        c \in MarkupFiles \cup {Locked}}

Idle ==
    /\ args = [mode |-> "", input |-> None, output |-> None]
    /\ files_to_process = <<>>
    /\ k = 0
    /\ pc = "idle"
    /\ calls = <<>>
    /\ conv = NoConv
    /\ made_from = [p \in Paths |-> Absent]

Init == fs \in OneFile /\ Idle

\* the runs are started without -o
Start ==
    \E mode \in Modes, output \in {None} :
        \/ StartBatch(mode, output)
        \/ \E input \in Given(fs) : StartSingle(mode, input, output)

Next == Start \/ ProcessNext \/ Finish

Spec == Init /\ [][Next]_vars

-----------------------------------------------------------------------------
(* Properties of the conversions, stated on the latest process_file call *)

Readable(content) == content.kind \notin {"absent", "locked"}

\* the nodes of a tree in document order
RECURSIVE AllNodes(_)
AllNodes(xs) ==
    IF xs = <<>> THEN <<>>
    ELSE LET x == Head(xs)
             kids == IF x.t = "obj" THEN Get(x, "children", JArr(<<>>)) ELSE JArr(<<>>)
         IN <<x>> \o (IF kids.t = "arr" THEN AllNodes(kids.xs) ELSE <<>>)
                 \o AllNodes(Tail(xs))

HasStrings(x, keys) == \A key \in keys : key \in DOMAIN x.f /\ x.f[key].t = "str"

\* a node that carries all of its optional attributes as strings and a name
\* that is not empty once trimmed
FullRecord(x) ==
    /\ x.t = "obj"
    /\ HasStrings(x, {"type", "name"})
    /\ Strip(x.f["name"].s) # ""
    /\ IF x.f["type"].s = "folder"
       THEN /\ HasStrings(x, {"add_date", "last_modified", "personal_toolbar_folder"})
            /\ "children" \in DOMAIN x.f
            /\ x.f["children"].t = "arr"
       ELSE /\ x.f["type"].s = "bookmark"
            /\ HasStrings(x, {"href", "add_date", "icon"})

FullTree(doc) ==
    /\ doc.t = "arr"
    /\ \A i \in DOMAIN AllNodes(doc.xs) : FullRecord(AllNodes(doc.xs)[i])

\* the latest call parsed, in html2json mode, the markup that an earlier
\* json2html call wrote for a tree with no optional attribute missing
ParsedItsOwnMarkup ==
    /\ conv.mode = "html2json"
    /\ conv.result # Absent
    /\ made_from[conv.input].kind = "json"
    /\ FullTree(made_from[conv.input].doc)
    /\ conv.content = json_to_html(made_from[conv.input]).out

\* C1: for every tree whose nodes carry all optional attributes as strings
\* and a non-empty name, parsing the markup the tree was serialized to gives
\* back the tree: same nodes, types, attribute values and children, in order
C1_RoundTrip ==
    ParsedItsOwnMarkup => conv.result = JsonText(made_from[conv.input].doc)

\* the tree of two links came back as its first link alone
C1_SecondItemLost ==
    /\ ParsedItsOwnMarkup
    /\ Len(made_from[conv.input].doc.xs) = 2
    /\ conv.result.doc = JArr(<<made_from[conv.input].doc.xs[1]>>)

OptionalAttributes == {"HREF", "ADD_DATE", "LAST_MODIFIED", "ICON"}

\* the default the serializer documents for an attribute that is missing
DocumentedDefault(name) == IF name = "HREF" THEN "#" ELSE ""

\* the latest call serialized, in json2html mode, the records that an earlier
\* html2json call parsed from markup holding no attribute at all
SerializedParsedRecords ==
    /\ conv.mode = "json2html"
    /\ conv.result.kind = "markup"
    /\ made_from[conv.input].kind = "markup"
    /\ \A i \in DOMAIN made_from[conv.input].atoms :
          made_from[conv.input].atoms[i].a # "attr"
    /\ conv.content = html_to_json(made_from[conv.input])
    /\ conv.content.doc.t = "arr"
    /\ conv.content.doc.xs # <<>>

\* C2: a link or folder parsed from markup in which an optional attribute is
\* absent is serialized with the documented default for that attribute:
\* HREF="#", and "" for ADD_DATE, LAST_MODIFIED and ICON
C2_AbsentAttributesGetDefaults ==
    SerializedParsedRecords =>
        \A i \in DOMAIN conv.result.atoms :
            LET at == conv.result.atoms[i]
            IN (at.a = "attr" /\ at.k \in OptionalAttributes)
                  => at.v = DocumentedDefault(at.k)

\* a link parsed from <DT><A>name</A> was written with HREF="None"
C2_HrefNone ==
    /\ SerializedParsedRecords
    /\ \E i \in DOMAIN conv.result.atoms : conv.result.atoms[i] = Attr("HREF", "None")

\* the next tag of the text after atom j: 0 when there is none
NextTag(atoms, j) ==
    Min0({m \in (j + 1)..Len(atoms) : atoms[m].a \in {"open", "close"}})

\* the folder heading with that name is directly followed by a list
OwnList(atoms, name) ==
    \E j \in 1..(Len(atoms) - 1) :
        /\ atoms[j] = Text(name)
        /\ atoms[j + 1] = Close("H3")
        /\ NextTag(atoms, j + 1) # 0
        /\ atoms[NextTag(atoms, j + 1)] = Open("DL")

ItemMarkers(atoms) == {i \in DOMAIN atoms : atoms[i] = Open("DT")}

\* the latest call parsed markup into a tree
ParsedMarkup ==
    /\ conv.mode = "html2json"
    /\ conv.content.kind = "markup"
    /\ conv.result # Absent
    /\ conv.result.doc.t = "arr"

\* C3: parse_bookmark_list counts no item twice and gives a folder only the
\* items of its own list: every item marker yields at most one node, and a
\* folder with no list of its own has no children, even when a later folder
\* of the same level has a list
C3_OnlyOwnChildren ==
    ParsedMarkup =>
        LET nodes == AllNodes(conv.result.doc.xs)
        IN /\ Len(nodes) <= Cardinality(ItemMarkers(conv.content.atoms))
           /\ \A n \in DOMAIN nodes :
                 (/\ nodes[n].f["type"] = JStr("folder")
                  /\ ~OwnList(conv.content.atoms, nodes[n].f["name"].s))
                     => nodes[n].f["children"] = JArr(<<>>)

\* a folder whose heading is followed by another folder's heading came back
\* with children
C3_SiblingListTaken ==
    /\ ParsedMarkup
    /\ \E n \in DOMAIN AllNodes(conv.result.doc.xs) :
          LET x == AllNodes(conv.result.doc.xs)[n]
          IN /\ x.f["type"] = JStr("folder")
             /\ ~OwnList(conv.content.atoms, x.f["name"].s)
             /\ x.f["children"] # JArr(<<>>)

\* the text holds a <DL ..> tag, an item marker <DT ..>
HasTag(atoms, tag) ==
    \E i \in DOMAIN atoms :
        atoms[i].a = "open" /\ Lower(atoms[i].k) = tag /\ TagEnd(atoms, i) # 0

\* the latest call converted readable text with html_to_json
ParsedText == conv.mode = "html2json" /\ conv.result # Absent

\* C4: html_to_json returns the NoRootList error document if and only if
\* the text holds no list at all (none after the first heading, none
\* anywhere); a text whose lists hold no item yields the empty array
C4_NoRootListIffNoList ==
    ParsedText =>
        LET atoms == AtomsOf(conv.content)
        IN /\ conv.result = JsonText(ErrorDocument) <=> ~HasTag(atoms, "dl")
           /\ (HasTag(atoms, "dl") /\ ~HasTag(atoms, "dt"))
                 => conv.result = JsonText(JArr(<<>>))

\* a text with a list and no heading before it was parsed, to the empty array
C4_ListWithoutHeading ==
    /\ ParsedText
    /\ HasTag(AtomsOf(conv.content), "dl")
    /\ ~HasTag(AtomsOf(conv.content), "h1")
    /\ conv.result = JsonText(JArr(<<>>))

\* the InvalidJSON error value for a text: the prefix, and the decoder's message
InvalidJSON(result, text) ==
    /\ result.kind = "plain"
    /\ Len(result.parts) = 3
    /\ result.parts[1] = ErrPrefix
    /\ result.parts[3] = json_loads(text).msg
    /\ result.parts[3] # ""

\* C5: for a text that is not decodable JSON, json_to_html returns the
\* InvalidJSON error value with the decoder's non-empty message, and the
\* json2html call of process_file returns False and leaves every file as it was
C5_InvalidJsonFailsWithoutWriting ==
    [][(/\ k' = k + 1
        /\ args.mode = "json2html"
        /\ Readable(fs[files_to_process[k + 1]])
        /\ json_loads(fs[files_to_process[k + 1]]).exc # "")
       => (/\ conv'.exc = ""
           /\ InvalidJSON(conv'.result, fs[files_to_process[k + 1]])
           /\ ~conv'.ret
           /\ ~conv'.wrote
           /\ calls'[k + 1][2] = FALSE
           /\ fs' = fs)]_vars

\* a json2html call read undecodable text and failed with the error value
C5_UndecodableRead ==
    /\ conv.mode = "json2html"
    /\ conv.content.kind = "plain"
    /\ InvalidJSON(conv.result, conv.content)
    /\ ~conv.ret
    /\ fs[conv.output] = Absent

\* C6: for every text json_to_html returns a value, the markup document or
\* the InvalidJSON error value, and never raises, also for JSON that is no
\* array of records (an object, null, a number, an array of other values)
C6_JsonToHtmlNeverRaises ==
    (conv.mode = "json2html" /\ Readable(conv.content))
        => /\ conv.exc \notin {"TypeError", "AttributeError"}
           /\ \/ conv.result.kind = "markup"
              \/ InvalidJSON(conv.result, conv.content)

\* json_to_html raised on the error document html_to_json produces
C6_RaisedOnErrorDocument ==
    /\ conv.mode = "json2html"
    /\ conv.content = JsonText(ErrorDocument)
    /\ conv.exc = "AttributeError"
    /\ conv.result = Absent

\* the latest call serialized a JSON document to markup
Serialized == conv.mode = "json2html" /\ conv.result.kind = "markup"

\* the </H3> that ends the heading opened at atom i
HeadingEnd(atoms, i) == Min0({j \in (i + 1)..Len(atoms) : atoms[j] = Close("H3")})

\* the folder records of the document whose heading shows that name
FoldersNamed(doc, name) ==
    {n \in DOMAIN AllNodes(doc.xs) :
        LET x == AllNodes(doc.xs)[n]
        IN /\ Get1(x, "type") = JStr("folder")
           /\ PyStr(Get(x, "name", JStr("NoNameFolder"))) = name}

\* C8: build_folder_html emits a folder's heading as exactly one line,
\* <DT><H3 ADD_DATE=".." LAST_MODIFIED=".."[ PERSONAL_TOOLBAR_FOLDER=".."]>name</H3>
\* with no line break between <DT><H3 and </H3>, and the line carries
\* PERSONAL_TOOLBAR_FOLDER if and only if the record has that field
C8_FolderHeadingOnOneLine ==
    Serialized =>
        LET atoms == conv.result.atoms
            doc == conv.content.doc
        IN \A i \in DOMAIN atoms :
              atoms[i] = Open("H3") =>
                 LET j == HeadingEnd(atoms, i)
                 IN /\ j # 0
                    /\ atoms[i - 1] = Gt /\ atoms[i - 2] = Open("DT")
                    /\ \A m \in i..j : atoms[m] # Nl
                    /\ \A n \in FoldersNamed(doc, atoms[j - 1].v) :
                          (\E m \in i..j : atoms[m].k = "PERSONAL_TOOLBAR_FOLDER")
                             <=> "personal_toolbar_folder"
                                    \in DOMAIN AllNodes(doc.xs)[n].f

\* a folder was serialized and its heading holds a line break before ">name"
C8_HeadingBroken ==
    /\ Serialized
    /\ \E i \in DOMAIN conv.result.atoms :
          /\ conv.result.atoms[i] = Open("H3")
          /\ \E m \in i..HeadingEnd(conv.result.atoms, i) :
                conv.result.atoms[m] = Nl /\ conv.result.atoms[m + 1] = Gt

\* the first atoms of the lines of a text; the last atom of the line of atom i
LineStarts(atoms) ==
    {i \in DOMAIN atoms : atoms[i] # Nl /\ (i = 1 \/ atoms[i - 1] = Nl)}
LineEnd(atoms, i) ==
    LET nl == Min0({j \in i..Len(atoms) : atoms[j] = Nl})
    IN IF nl = 0 THEN Len(atoms) ELSE nl - 1

ItemTags == {"DT", "H3", "A"}
ItemAttributes == OptionalAttributes \cup {"PERSONAL_TOOLBAR_FOLDER"}

\* the line starting at atom i holds text of an item: a heading or a link
ItemLine(atoms, i) ==
    \E m \in i..LineEnd(atoms, i) :
        \/ atoms[m].a \in {"open", "close"} /\ atoms[m].k \in ItemTags
        \/ atoms[m].a = "attr" /\ atoms[m].k \in ItemAttributes

\* the nesting depth at atom i: the lists open there (1 inside the outermost)
Depth(atoms, i) ==
    Cardinality({m \in 1..(i - 1) : atoms[m] = Open("DL")})
    - Cardinality({m \in 1..(i - 1) : atoms[m] = Close("DL")})

\* C9: every line json_to_html emits for a node at nesting depth d begins
\* with exactly 4*d spaces (d = 1 for the items of the outermost list, one
\* more for each folder around the node); no item line is indented otherwise
C9_ItemLinesIndented ==
    Serialized =>
        \A i \in LineStarts(conv.result.atoms) :
            ItemLine(conv.result.atoms, i)
               => conv.result.atoms[i]
                     = Atom("sp", "", Repeat(Depth(conv.result.atoms, i)))

\* a top-level folder was serialized and the line ">name</H3>" of its
\* heading starts with no space at all
C9_HeadingLineNotIndented ==
    /\ Serialized
    /\ \E i \in LineStarts(conv.result.atoms) :
          /\ conv.result.atoms[i] = Gt
          /\ conv.result.atoms[LineEnd(conv.result.atoms, i)] = Close("H3")
          /\ Depth(conv.result.atoms, i) = 1

\* C10: in html2json mode process_file fails and writes nothing exactly when
\* html_to_json found no root list; every parse result, the empty tree and
\* trees that hold the word "error" included, is written to the output file
\* and reported as success (the files being readable and writable)
C10_FailsIffNoRootList ==
    [][(k' = k + 1 /\ args.mode = "html2json" /\ conv'.exc = "")
       => IF conv'.result = JsonText(ErrorDocument)
          THEN ~conv'.ret /\ calls'[k + 1][2] = FALSE /\ fs' = fs
          ELSE /\ conv'.ret /\ calls'[k + 1][2] = TRUE
               /\ conv'.result = html_to_json(fs[files_to_process[k + 1]])
               /\ fs' = [fs EXCEPT ![conv'.output] = conv'.result]]_vars

\* a tree holding the word "error" in a short text was written as a success
C10_ErrorWordWritten ==
    /\ conv.mode = "html2json"
    /\ conv.ret
    /\ HasError(conv.result.doc)
    /\ fs[conv.output] = conv.result

-----------------------------------------------------------------------------
(* Batch runs: a directory of several files, main called without -i *)

\* what a "<b>bookmarks.json" holds: a tree, the error document,
\* undecodable text, or no file
BatchJson ==
    {JsonText(JArr(<<LinkRecord("n1")>>)), JsonText(ErrorDocument),
     Plain(<<"{not valid">>), Absent}

\* what a "<b>bookmarks.html" holds: a list of one link, markup with no
\* list, an unreadable (and unwritable) file, or no file
BatchHtml ==
    {Markup(Written(<<"DLO", "L", "DLC">>, 1)), Markup(Written(<<"H1", "L">>, 1)),
     Locked, Absent}

Directories ==
    {[p \in Paths |-> IF p = MissingPath THEN Absent
                      ELSE IF p[2] = "json" THEN j[p[1]] ELSE h[p[1]]] :
        j \in [Bases -> BatchJson], h \in [Bases -> BatchHtml]}

BatchInit == fs \in Directories /\ Idle

BatchStart == \E mode \in Modes : StartBatch(mode, None)

BatchNext == BatchStart \/ ProcessNext \/ Finish

\* the for statement at line 232 as the loop counter sees it: among the steps
\* of BatchNext, the steps that advance k are the ProcessNext steps, and the
\* step that leaves the loop is Finish
LoopStep == pc = "loop" /\ k < Len(files_to_process) /\ k' = k + 1
LoopEnd == pc = "loop" /\ k = Len(files_to_process) /\ pc' = "done"

\* the interpreter runs the loop on: process_file returns (no call in it
\* waits or loops), so an iteration that can be taken is taken, and so is
\* the exit
BatchSpec == BatchInit /\ [][BatchNext]_vars /\ WF_k(LoopStep) /\ WF_pc(LoopEnd)

-----------------------------------------------------------------------------
(* The batch loop *)

\* the inputs of the process_file calls made so far, in call order
Attempted == [i \in DOMAIN calls |-> calls[i][1]]

\* the calls made so far are the first k files of the list, one call each
InListOrder ==
    /\ k <= Len(files_to_process)
    /\ Attempted = SubSeq(files_to_process, 1, k)

\* C7: in batch mode every file the pattern matched is passed to
\* process_file exactly once and in list order, no failure of a file (a
\* conversion error, an exception while reading, converting or writing) ends
\* the run early, and the loop always reaches its end with every file attempted
C7_BatchAttemptsEveryFile ==
    /\ [](InListOrder /\ pc # "crashed")
    /\ [](pc = "done" => Attempted = files_to_process)
    /\ (pc = "loop" ~> pc = "done")

\* a run over two files that reached its end after the first file failed
\* with an exception and the second was converted
C7_FailureThenSuccess ==
    /\ pc = "done"
    /\ args.input = None
    /\ Len(calls) = 2
    /\ calls[1][2] = FALSE
    /\ calls[1][3] # ""
    /\ calls[2][2] = TRUE
    /\ conv.wrote

====
